---- MODULE Spec2Model ----
(***************************************************************************)
(* Swarm Algorithm of Thoughts (src/app.py): class SwarmAoT.               *)
(*                                                                         *)
(* The optimizer owns a list of agent positions (swarm) and a running      *)
(* best (global_best, global_best_score).  optimize(iterations) is a       *)
(* nested loop: for every iteration, for every agent in list order,        *)
(* evaluate the heuristic on the agent's position, replace the running     *)
(* best on a strictly smaller score (printing a notification), and store   *)
(* update_fn(position, problem_space) back at the agent's index.           *)
(*                                                                         *)
(* Every optimizer object o has its own fields and, while a call of        *)
(* optimize is in progress, its own frame (pc, iterations, iteration,      *)
(* agent_idx, position, score).  The program is single threaded: at most   *)
(* one call is in progress at a time.                                      *)
(***************************************************************************)
EXTENDS Integers, Sequences, FiniteSets

\* ---------------------------------------------------------------------------
\* Bounds of the model
\* ---------------------------------------------------------------------------
\* num_agents ranges over 1 .. MaxAgents
MaxAgents == 2
\* num_agents ranges over 1 .. MaxWalkAgents when update_fn is the random walk
MaxWalkAgents == 1
\* num_agents ranges over 1 .. MaxStaticAgents when the agents are static
MaxStaticAgents == 3
\* problem_space is range(0, MaxSpace + 1)
MaxSpace == 1
\* problem_space is range(0, MaxStaticSpace + 1) when the agents are static
MaxStaticSpace == 2
\* The calls made on one optimizer: a call is charged its iterations argument,
\* and 1 when that is 0; the charges add up to MaxWork at most.
MaxWork == 2
\* The random walk draws its step from -MaxStep .. MaxStep
MaxStep == 1

\* ---------------------------------------------------------------------------
\* Values
\* ---------------------------------------------------------------------------
Min(S) == CHOOSE x \in S : \A y \in S : x <= y
Max(S) == CHOOSE x \in S : \A y \in S : x >= y

\* The problem space of the example usage is a range of integers.
Range(n) == 0 .. (n - 1)

\* Positions an agent can hold: those of the problem space and the position
\* just outside of it, which an update function that does not clamp returns.
PositionsOf(space) == space \cup {Max(space) + 1}

\* A problem space of one position.
SinglePosition == {5}

\* float('inf'): compares greater than every score a heuristic returns.
\* The scores of the heuristics below are at most the largest position.
Inf == Max({MaxSpace, MaxStaticSpace} \cup SinglePosition) + 2

\* None: the undefined position of the sentinel; no position equals it.
None == -1

\* The value of a call that has not returned.
NoResult == <<>>

\* ---------------------------------------------------------------------------
\* The injected callables
\* ---------------------------------------------------------------------------
\* int(np.sqrt(n)) for n >= 0
ISqrt(n) == CHOOSE k \in 0 .. n : k * k <= n /\ (k + 1) * (k + 1) > n

\* is_prime of the example usage
is_prime(n) ==
    IF n < 2 THEN FALSE
    ELSE \A i \in 2 .. ISqrt(n) : n % i # 0

\* The heuristics a caller passes to the constructor:
\*   "example"  : the heuristic of the example usage, -1 if is_prime(n) else n
\*   "identity" : heuristic(x) = x
\*   "negate"   : heuristic(x) = -x
\*   "constant" : heuristic(x) = 0, every score ties
Heuristics == {"example", "identity", "negate", "constant"}

\* The score heuristic h returns on position p.
HeuristicValue(h, p) ==
    CASE h = "example"  -> (IF is_prime(p) THEN -1 ELSE p)
      [] h = "identity" -> p
      [] h = "negate"   -> 0 - p
      [] h = "constant" -> 0

\* The update functions a caller passes to the constructor:
\*   "walk"   : the update_fn of the example usage, a clamped random walk
\*   "static" : update_fn(x, _) = x
\*   "drift"  : update_fn(x, _) = x + 1, not clamped; raises on a position
\*              that is already outside of the space
UpdateFns == {"walk", "static", "drift"}
DeterministicUpdateFns == {"static", "drift"}

\* update_fn of the example usage: max(min(position + step, max(space)), min(space))
Clamp(p, space) == Max({Min({p, Max(space)}), Min(space)})

\* The outcome of a call of a callable: a value, or a raised error.
Returns(v) == [raised |-> FALSE, value |-> v]
Raises == [raised |-> TRUE, value |-> 0]

\* The outcomes update function u can produce on position p.
UpdateOutcomes(u, p, space) ==
    CASE u = "walk"   -> {Returns(Clamp(p + step, space)) : step \in (0 - MaxStep) .. MaxStep}
      [] u = "static" -> {Returns(p)}
      [] u = "drift"  -> IF p > Max(space) THEN {Raises} ELSE {Returns(p + 1)}

VARIABLES
    objs,               \* the optimizers constructed
    num_agents,         \* constructor argument
    problem_space,      \* constructor argument
    heuristic,          \* constructor argument
    raise_at,           \* the position on which heuristic raises, or None
    update_fn,          \* constructor argument
    initial_swarm,      \* the positions sampled by _initialize_swarm
    swarm,              \* self.swarm, per optimizer
    global_best,        \* self.global_best, per optimizer
    global_best_score,  \* self.global_best_score, per optimizer
    pc,                 \* per optimizer: where its optimize call stands
    iterations,         \* argument of the current or latest call
    iteration,          \* loop variable of line 62
    agent_idx,          \* loop variable of line 63
    position,           \* loop variable of line 63
    score,              \* local of line 65
    result,             \* the value returned by the current or latest call
    raised_in,          \* the callable whose error ended the latest call
    output,             \* the lines printed, as <<iteration, agent_idx, score>>
    trace,              \* history: evaluations and updates completed
    entry,              \* history: the optimizer's fields when the call began
    rounds,             \* history: rounds completed since construction
    calls,              \* history: number of optimize calls made
    requested,          \* history: sum of the iterations arguments
    charged             \* history: sum of the charges of the calls

config == <<objs, num_agents, problem_space, heuristic, raise_at, update_fn, initial_swarm>>
fields == <<swarm, global_best, global_best_score>>
frame == <<pc, iterations, iteration, agent_idx, position, score, result, raised_in>>
history == <<output, trace, entry, rounds, calls, requested, charged>>
vars == <<config, fields, frame, history>>

\* ---------------------------------------------------------------------------
\* Construction
\* ---------------------------------------------------------------------------
\* _initialize_swarm: num_agents independent samples of problem_space
SampleSwarms(n, space) == [1 .. n -> space]

\* The outcome of heuristic(p): the heuristic raises on position raise_at.
HeuristicOutcome(p) ==
    IF p = raise_at THEN Raises ELSE Returns(HeuristicValue(heuristic, p))

\* The fields of a call in progress, as they stand when optimize is entered.
Snapshot(o) ==
    [swarm |-> swarm[o], global_best |-> global_best[o],
     global_best_score |-> global_best_score[o],
     trace_len |-> Len(trace[o]), output_len |-> Len(output[o]),
     rounds |-> rounds[o]]

\* __init__ of every optimizer in os, all from the same sample s.
Construct(os, s) ==
    /\ objs = os
    /\ initial_swarm = s
    /\ swarm = [o \in os |-> s]
    /\ global_best = [o \in os |-> None]
    /\ global_best_score = [o \in os |-> Inf]
    /\ pc = [o \in os |-> "idle"]
    /\ iterations = [o \in os |-> 0]
    /\ iteration = [o \in os |-> -1]
    /\ agent_idx = [o \in os |-> -1]
    /\ position = [o \in os |-> None]
    /\ score = [o \in os |-> Inf]
    /\ result = [o \in os |-> NoResult]
    /\ raised_in = [o \in os |-> "none"]
    /\ output = [o \in os |-> <<>>]
    /\ trace = [o \in os |-> <<>>]
    /\ entry = [o \in os |-> [swarm |-> s, global_best |-> None,
                              global_best_score |-> Inf, trace_len |-> 0,
                              output_len |-> 0, rounds |-> 0]]
    /\ rounds = [o \in os |-> 0]
    /\ calls = [o \in os |-> 0]
    /\ requested = [o \in os |-> 0]
    /\ charged = [o \in os |-> 0]

\* The constructor arguments: heuristic raises on no position or on one of
\* the positions in raises.
Arguments(agents, space, raises, updates) ==
    /\ num_agents \in agents
    /\ problem_space = space
    /\ heuristic \in Heuristics
    /\ raise_at \in raises \cup {None}
    /\ update_fn \in updates

\* One optimizer, any heuristic, any update function.
Init ==
    /\ \/ Arguments(1 .. MaxAgents, Range(MaxSpace + 1),
                    PositionsOf(Range(MaxSpace + 1)), DeterministicUpdateFns)
       \/ Arguments(1 .. MaxWalkAgents, Range(MaxSpace + 1),
                    PositionsOf(Range(MaxSpace + 1)), {"walk"})
    /\ \E s \in SampleSwarms(num_agents, problem_space) : Construct({"opt"}, s)

\* ---------------------------------------------------------------------------
\* optimize
\* ---------------------------------------------------------------------------
Running(o) == pc[o] \notin {"idle", "returned", "error"}

\* Variant of the loop bound that runs one index too far.
HasNextInclusive(i, n) == i <= n

\* range(n) and enumerate(list) produce index i while i < n
HasNext(i, n) == i < n

\* Variants of the comparison of line 68: reversed, always true, not strict.
IsBetterReversed(s, best) == s > best
IsBetterAlways(s, best) == TRUE
IsBetterOrEqual(s, best) == s <= best

\* line 68: score < self.global_best_score
IsBetter(s, best) == s < best

\* Variants of the store of line 74: clamped into the space, appended to the
\* list, stored at the next agent's index.
StoreAtClamped(s, idx, v) == [s EXCEPT ![idx + 1] = Clamp(v, problem_space)]
StoreAppended(s, idx, v) == Append(s, v)
StoreAtNext(s, idx, v) == [s EXCEPT ![((idx + 1) % Len(s)) + 1] = v]

\* line 74: self.swarm[agent_idx] = value
StoreAt(s, idx, v) == [s EXCEPT ![idx + 1] = v]

\* What a call of optimize(n) is charged against MaxWork.
Charge(n) == IF n = 0 THEN 1 ELSE n

\* Variant of the call that starts every run from a fresh best record.
CallReset(o, n) ==
    /\ \A q \in objs : ~Running(q)
    /\ charged[o] + Charge(n) <= MaxWork
    /\ o = "ref" => calls[o] = 0
    /\ pc' = [pc EXCEPT ![o] = "for_iteration"]
    /\ iterations' = [iterations EXCEPT ![o] = n]
    /\ iteration' = [iteration EXCEPT ![o] = -1]
    /\ agent_idx' = [agent_idx EXCEPT ![o] = -1]
    /\ result' = [result EXCEPT ![o] = NoResult]
    /\ raised_in' = [raised_in EXCEPT ![o] = "none"]
    /\ entry' = [entry EXCEPT ![o] = Snapshot(o)]
    /\ calls' = [calls EXCEPT ![o] = @ + 1]
    /\ requested' = [requested EXCEPT ![o] = @ + n]
    /\ charged' = [charged EXCEPT ![o] = @ + Charge(n)]
    /\ global_best' = [global_best EXCEPT ![o] = None]
    /\ global_best_score' = [global_best_score EXCEPT ![o] = Inf]
    /\ UNCHANGED <<config, swarm, position, score, output, trace, rounds>>

\* optimize(n) is called on optimizer o.
Call(o, n) ==
    /\ \A q \in objs : ~Running(q)
    /\ charged[o] + Charge(n) <= MaxWork
    /\ o = "ref" => calls[o] = 0
    /\ pc' = [pc EXCEPT ![o] = "for_iteration"]
    /\ iterations' = [iterations EXCEPT ![o] = n]
    /\ iteration' = [iteration EXCEPT ![o] = -1]
    /\ agent_idx' = [agent_idx EXCEPT ![o] = -1]
    /\ result' = [result EXCEPT ![o] = NoResult]
    /\ raised_in' = [raised_in EXCEPT ![o] = "none"]
    /\ entry' = [entry EXCEPT ![o] = Snapshot(o)]
    /\ calls' = [calls EXCEPT ![o] = @ + 1]
    /\ requested' = [requested EXCEPT ![o] = @ + n]
    /\ charged' = [charged EXCEPT ![o] = @ + Charge(n)]
    /\ UNCHANGED <<config, fields, position, score, output, trace, rounds>>

\* line 62: for iteration in range(iterations)
ForIteration(o) ==
    /\ pc[o] = "for_iteration"
    /\ IF HasNext(iteration[o] + 1, iterations[o])
       THEN /\ iteration' = [iteration EXCEPT ![o] = @ + 1]
            /\ agent_idx' = [agent_idx EXCEPT ![o] = -1]
            /\ pc' = [pc EXCEPT ![o] = "for_agent"]
       ELSE /\ pc' = [pc EXCEPT ![o] = "return"]
            /\ UNCHANGED <<iteration, agent_idx>>
    /\ UNCHANGED <<config, fields, iterations, position, score, result, raised_in, history>>

\* line 63: for agent_idx, position in enumerate(self.swarm)
ForAgent(o) ==
    /\ pc[o] = "for_agent"
    /\ IF HasNext(agent_idx[o] + 1, Len(swarm[o]))
       THEN /\ agent_idx' = [agent_idx EXCEPT ![o] = @ + 1]
            /\ position' = [position EXCEPT ![o] = swarm[o][agent_idx[o] + 2]]
            /\ pc' = [pc EXCEPT ![o] = "evaluate"]
            /\ UNCHANGED rounds
       ELSE /\ pc' = [pc EXCEPT ![o] = "for_iteration"]
            /\ rounds' = [rounds EXCEPT ![o] = @ + 1]
            /\ UNCHANGED <<agent_idx, position>>
    /\ UNCHANGED <<config, fields, iterations, iteration, score, result, raised_in,
                   output, trace, entry, calls, requested, charged>>

\* Variant of line 65 that swallows the error of the heuristic and goes on
\* with the worst score.
EvaluateSwallow(o) ==
    /\ pc[o] = "evaluate"
    /\ LET r == HeuristicOutcome(position[o])
           v == IF r.raised THEN Inf ELSE r.value
       IN  /\ score' = [score EXCEPT ![o] = v]
           /\ trace' = [trace EXCEPT ![o] = Append(@,
                  [kind |-> "eval", iteration |-> iteration[o], agent |-> agent_idx[o],
                   position |-> position[o], value |-> v])]
           /\ pc' = [pc EXCEPT ![o] = "compare"]
    /\ UNCHANGED <<config, fields, iterations, iteration, agent_idx, position, result,
                   raised_in, output, entry, rounds, calls, requested, charged>>

\* line 65: score = self.heuristic(position)
Evaluate(o) ==
    /\ pc[o] = "evaluate"
    /\ LET r == HeuristicOutcome(position[o]) IN
       IF r.raised
       THEN /\ pc' = [pc EXCEPT ![o] = "error"]
            /\ raised_in' = [raised_in EXCEPT ![o] = "heuristic"]
            /\ UNCHANGED <<score, trace>>
       ELSE /\ score' = [score EXCEPT ![o] = r.value]
            /\ trace' = [trace EXCEPT ![o] = Append(@,
                   [kind |-> "eval", iteration |-> iteration[o], agent |-> agent_idx[o],
                    position |-> position[o], value |-> r.value])]
            /\ pc' = [pc EXCEPT ![o] = "compare"]
            /\ UNCHANGED raised_in
    /\ UNCHANGED <<config, fields, iterations, iteration, agent_idx, position, result,
                   output, entry, rounds, calls, requested, charged>>

\* Variant of lines 68-71 that records the score and keeps the old position.
CompareScoreOnly(o) ==
    /\ pc[o] = "compare"
    /\ IF IsBetter(score[o], global_best_score[o])
       THEN /\ global_best' = [global_best EXCEPT ![o] =
                                  IF @ = None THEN position[o] ELSE @]
            /\ global_best_score' = [global_best_score EXCEPT ![o] = score[o]]
            /\ output' = [output EXCEPT ![o] = Append(@, <<iteration[o], agent_idx[o], score[o]>>)]
       ELSE UNCHANGED <<global_best, global_best_score, output>>
    /\ pc' = [pc EXCEPT ![o] = "update"]
    /\ UNCHANGED <<config, swarm, iterations, iteration, agent_idx, position, score,
                   result, raised_in, trace, entry, rounds, calls, requested, charged>>

\* lines 68-71: if score < self.global_best_score: record and print
Compare(o) ==
    /\ pc[o] = "compare"
    /\ IF IsBetter(score[o], global_best_score[o])
       THEN /\ global_best' = [global_best EXCEPT ![o] = position[o]]
            /\ global_best_score' = [global_best_score EXCEPT ![o] = score[o]]
            /\ output' = [output EXCEPT ![o] = Append(@, <<iteration[o], agent_idx[o], score[o]>>)]
       ELSE UNCHANGED <<global_best, global_best_score, output>>
    /\ pc' = [pc EXCEPT ![o] = "update"]
    /\ UNCHANGED <<config, swarm, iterations, iteration, agent_idx, position, score,
                   result, raised_in, trace, entry, rounds, calls, requested, charged>>

\* line 74: self.swarm[agent_idx] = self.update_fn(position, self.problem_space)
Update(o) ==
    /\ pc[o] = "update"
    /\ \E r \in UpdateOutcomes(update_fn, position[o], problem_space) :
       IF r.raised
       THEN /\ pc' = [pc EXCEPT ![o] = "error"]
            /\ raised_in' = [raised_in EXCEPT ![o] = "update_fn"]
            /\ UNCHANGED <<swarm, trace>>
       ELSE /\ swarm' = [swarm EXCEPT ![o] = StoreAt(@, agent_idx[o], r.value)]
            /\ trace' = [trace EXCEPT ![o] = Append(@,
                   [kind |-> "update", iteration |-> iteration[o], agent |-> agent_idx[o],
                    position |-> position[o], value |-> r.value])]
            /\ pc' = [pc EXCEPT ![o] = "for_agent"]
            /\ UNCHANGED raised_in
    /\ UNCHANGED <<config, global_best, global_best_score, iterations, iteration,
                   agent_idx, position, score, result, output, entry, rounds, calls,
                   requested, charged>>

\* line 76: return self.global_best, self.global_best_score
Return(o) ==
    /\ pc[o] = "return"
    /\ result' = [result EXCEPT ![o] = <<global_best[o], global_best_score[o]>>]
    /\ pc' = [pc EXCEPT ![o] = "returned"]
    /\ UNCHANGED <<config, fields, iterations, iteration, agent_idx, position, score,
                   raised_in, history>>

Next ==
    \/ \E o \in objs : \E n \in 0 .. MaxWork : Call(o, n)
    \/ \E o \in objs : ForIteration(o)
    \/ \E o \in objs : ForAgent(o)
    \/ \E o \in objs : Evaluate(o)
    \/ \E o \in objs : Compare(o)
    \/ \E o \in objs : Update(o)
    \/ \E o \in objs : Return(o)

Spec == Init /\ [][Next]_vars

\* Two optimizers constructed with the same arguments and the same sample,
\* with a deterministic update function: "opt" is called any number of times,
\* the reference "ref" once.  heuristic raises on no position or on the
\* position outside of the space.
InitDet ==
    /\ Arguments(1 .. MaxAgents, Range(MaxSpace + 1), {MaxSpace + 1},
                 DeterministicUpdateFns)
    /\ \E s \in SampleSwarms(num_agents, problem_space) : Construct({"opt", "ref"}, s)

SpecDet == InitDet /\ [][Next]_vars

\* One optimizer with static agents.
InitStatic ==
    /\ \/ Arguments(1 .. MaxStaticAgents, Range(MaxStaticSpace + 1),
                    Range(MaxStaticSpace + 1), {"static"})
       \/ Arguments({1}, SinglePosition, {}, {"static"})
    /\ \E s \in SampleSwarms(num_agents, problem_space) : Construct({"opt"}, s)

SpecStatic == InitStatic /\ [][Next]_vars

\* ---------------------------------------------------------------------------
\* Reading the history
\* ---------------------------------------------------------------------------
\* Indices of the trace of optimizer o holding evaluations / updates.
EvalIdx(o) == {k \in 1 .. Len(trace[o]) : trace[o][k].kind = "eval"}
UpdateIdx(o, j) ==
    {k \in 1 .. Len(trace[o]) : trace[o][k].kind = "update" /\ trace[o][k].agent = j}

\* Every score computed on optimizer o since construction.
EvalScores(o) == {trace[o][k].value : k \in EvalIdx(o)}

\* The earliest evaluation whose score is the minimum of all scores.
FirstMinEval(o) ==
    LET m == Min(EvalScores(o))
    IN  trace[o][Min({k \in EvalIdx(o) : trace[o][k].value = m})]

\* The position agent j holds after the first k events of the trace.
PositionAfter(o, j, k) ==
    LET us == {u \in UpdateIdx(o, j) : u <= k}
    IN  IF us = {} THEN initial_swarm[j + 1] ELSE trace[o][Max(us)].value

\* The events of the current or latest call.
CallLen(o) == Len(trace[o]) - entry[o].trace_len
CallEvent(o, k) == trace[o][entry[o].trace_len + k]

Sentinel == <<None, Inf>>

TypeOK ==
    /\ \A o \in objs :
        /\ swarm[o] \in Seq(PositionsOf(problem_space))
        /\ global_best[o] \in PositionsOf(problem_space) \cup {None}
        /\ global_best_score[o] \in (0 - Inf) .. Inf
        /\ pc[o] \in {"idle", "for_iteration", "for_agent", "evaluate", "compare",
                      "update", "return", "returned", "error"}
        /\ rounds[o] <= requested[o]

\* ---------------------------------------------------------------------------
\* C1: the score optimize returns is the minimum of all heuristic scores
\* computed on the optimizer since construction, over every step of every
\* optimize call so far, and +infinity when nothing has been evaluated.
\* ---------------------------------------------------------------------------
C1_ReturnedScoreIsMinimum ==
    \A o \in objs :
        pc[o] = "returned" =>
            /\ Len(result[o]) = 2
            /\ result[o][2] = (IF EvalScores(o) = {} THEN Inf ELSE Min(EvalScores(o)))
            /\ \A s \in EvalScores(o) : result[o][2] <= s

\* A second call has returned a score lower than the first score computed.
C1_Witness ==
    \E o \in objs :
        /\ pc[o] = "returned"
        /\ calls[o] = 2
        /\ entry[o].trace_len > 0
        /\ CallLen(o) > 0
        /\ result[o][2] < trace[o][1].value
        /\ result[o][2] < entry[o].global_best_score

\* ---------------------------------------------------------------------------
\* C2: global_best_score never increases, in any step of any call.
\* ---------------------------------------------------------------------------
C2_ScoreNeverIncreases ==
    [][\A o \in objs : global_best_score'[o] <= global_best_score[o]]_vars

\* The score has been lowered twice, the second time in a second call.
C2_Witness ==
    \E o \in objs :
        /\ Len(output[o]) >= 2
        /\ calls[o] = 2
        /\ entry[o].output_len >= 1
        /\ Len(output[o]) > entry[o].output_len

\* ---------------------------------------------------------------------------
\* C3: a step replaces (global_best, global_best_score) by (position, score)
\* exactly when score is strictly below the current best, printing exactly
\* one notification <<iteration, agent_idx, score>> with the replacement and
\* none otherwise; ties never replace, so the returned position is that of
\* the earliest evaluation attaining the minimum.
\* ---------------------------------------------------------------------------
C3_CompareStep(o) ==
    IF pc[o] = "compare"
    THEN IF score[o] < global_best_score[o]
         THEN /\ global_best'[o] = position[o]
              /\ global_best_score'[o] = score[o]
              /\ output'[o] = Append(output[o], <<iteration[o], agent_idx[o], score[o]>>)
         ELSE /\ global_best'[o] = global_best[o]
              /\ global_best_score'[o] = global_best_score[o]
              /\ output'[o] = output[o]
    ELSE /\ global_best'[o] = global_best[o]
         /\ global_best_score'[o] = global_best_score[o]
         /\ output'[o] = output[o]

C3_EarliestMinimum ==
    \A o \in objs :
        (pc[o] = "returned" /\ EvalIdx(o) # {}) =>
            result[o] = <<FirstMinEval(o).position, FirstMinEval(o).value>>

C3_StrictReplacement ==
    /\ [][\A o \in objs : C3_CompareStep(o)]_vars
    /\ []C3_EarliestMinimum

\* Two different positions tied for the minimum; the earlier one was returned.
C3_Witness ==
    \E o \in objs :
        /\ pc[o] = "returned"
        /\ \E j, k \in EvalIdx(o) :
            /\ j < k
            /\ trace[o][j].value = result[o][2]
            /\ trace[o][k].value = result[o][2]
            /\ trace[o][j].position # trace[o][k].position
            /\ result[o][1] = trace[o][j].position

\* ---------------------------------------------------------------------------
\* C4 (as stated): optimize(0) returns the sentinel (undefined position,
\* +infinity), in whatever state of the optimizer it is called.
\* ---------------------------------------------------------------------------
C4_ZeroReturnsSentinel ==
    \A o \in objs :
        (pc[o] = "returned" /\ iterations[o] = 0) => result[o] = Sentinel

\* C4 (amended): optimize(0) performs no heuristic evaluation, no position
\* update and no notification and leaves swarm and the best record unchanged;
\* it returns the best record as it stood when it was called, which is the
\* sentinel when no evaluation has been performed on the optimizer before.
C4_ZeroStep(o) ==
    (Running(o) /\ iterations[o] = 0) =>
        /\ swarm'[o] = swarm[o]
        /\ global_best'[o] = global_best[o]
        /\ global_best_score'[o] = global_best_score[o]
        /\ trace'[o] = trace[o]
        /\ output'[o] = output[o]
        /\ pc'[o] \in {"for_iteration", "return", "returned"}

C4_ZeroReturned ==
    \A o \in objs :
        (pc[o] = "returned" /\ iterations[o] = 0) =>
            /\ result[o] = <<entry[o].global_best, entry[o].global_best_score>>
            /\ result[o] = <<global_best[o], global_best_score[o]>>
            /\ swarm[o] = entry[o].swarm
            /\ Len(trace[o]) = entry[o].trace_len
            /\ Len(output[o]) = entry[o].output_len
            /\ rounds[o] = entry[o].rounds
            /\ (EvalIdx(o) = {} => result[o] = Sentinel)

C4_ZeroIsNoWork ==
    /\ [][\A o \in objs : C4_ZeroStep(o)]_vars
    /\ []C4_ZeroReturned

\* optimize(0) has returned after an earlier call that found a best position,
\* and on another path on a freshly constructed optimizer.
C4_Witness ==
    \E o \in objs :
        /\ pc[o] = "returned"
        /\ iterations[o] = 0
        /\ calls[o] = 2
        /\ rounds[o] >= 1
        /\ result[o] # Sentinel

C4_WitnessFresh ==
    \E o \in objs :
        /\ pc[o] = "returned"
        /\ iterations[o] = 0
        /\ calls[o] = 1
        /\ result[o] = Sentinel

\* ---------------------------------------------------------------------------
\* C5: when heuristic raises at step (iteration r, agent i), optimize ends in
\* the error outcome without a result, no later step runs, agent i and the
\* agents after it keep the positions they had when round r began, and the
\* best record is the best over the evaluations completed before step (r, i).
\* ---------------------------------------------------------------------------
\* Step (r1, i1) comes strictly before step (r2, i2).
StepBefore(r1, i1, r2, i2) == r1 < r2 \/ (r1 = r2 /\ i1 < i2)

\* The position agent j held when round r of the current call began.
PositionAtRound(o, j, r) ==
    LET us == {k \in 1 .. CallLen(o) :
                  /\ CallEvent(o, k).kind = "update"
                  /\ CallEvent(o, k).agent = j
                  /\ CallEvent(o, k).iteration < r}
    IN  IF us = {} THEN entry[o].swarm[j + 1] ELSE CallEvent(o, Max(us)).value

C5_HeuristicRaised(o) ==
    (pc[o] = "error" /\ raised_in[o] = "heuristic") =>
        /\ result[o] = NoResult
        /\ position[o] = raise_at
        /\ \A k \in 1 .. CallLen(o) :
              StepBefore(CallEvent(o, k).iteration, CallEvent(o, k).agent,
                         iteration[o], agent_idx[o])
        /\ CallLen(o) = 2 * (iteration[o] * Len(swarm[o]) + agent_idx[o])
        /\ \A j \in agent_idx[o] .. (Len(swarm[o]) - 1) :
              swarm[o][j + 1] = PositionAtRound(o, j, iteration[o])
        /\ IF EvalIdx(o) = {}
           THEN <<global_best[o], global_best_score[o]>> = Sentinel
           ELSE <<global_best[o], global_best_score[o]>> =
                   <<FirstMinEval(o).position, FirstMinEval(o).value>>

C5_RaiseStep(o) ==
    /\ (pc[o] = "evaluate" /\ position[o] = raise_at) =>
          /\ pc'[o] = "error"
          /\ raised_in'[o] = "heuristic"
          /\ swarm'[o] = swarm[o]
          /\ global_best'[o] = global_best[o]
          /\ global_best_score'[o] = global_best_score[o]
          /\ trace'[o] = trace[o]
          /\ output'[o] = output[o]
    /\ pc[o] = "error" =>
          /\ swarm'[o] = swarm[o]
          /\ global_best'[o] = global_best[o]
          /\ global_best_score'[o] = global_best_score[o]
          /\ trace'[o] = trace[o]
          /\ output'[o] = output[o]
          /\ pc'[o] \in {"error", "for_iteration"}
          /\ pc'[o] = "error" => result'[o] = NoResult

C5_HeuristicErrorAborts ==
    /\ [][\A o \in objs : C5_RaiseStep(o)]_vars
    /\ [](\A o \in objs : C5_HeuristicRaised(o))

\* heuristic raised in the second round on the second agent, after the best
\* record had been replaced.
C5_Witness ==
    \E o \in objs :
        /\ pc[o] = "error"
        /\ raised_in[o] = "heuristic"
        /\ iteration[o] = 1
        /\ agent_idx[o] = 1
        /\ global_best[o] # None
        /\ swarm[o] # entry[o].swarm

\* ---------------------------------------------------------------------------
\* C7: optimize(iterations) runs exactly `iterations` rounds in increasing
\* order, each round taking the agents in increasing index order; every agent
\* is evaluated once and then updated once per round; an evaluation uses the
\* position the agent's previous update produced (the initial sample before
\* any update), and the position stored is exactly what update_fn returned
\* for the evaluated position, unclamped.
\* ---------------------------------------------------------------------------
\* The k-th event of a call is the evaluation (k odd) or the update (k even)
\* of step number (k - 1) \div 2, steps counted round by round, agent by agent.
C7_EventInOrder(o, k, e) ==
    LET step == (k - 1) \div 2
    IN  /\ e.kind = (IF k % 2 = 1 THEN "eval" ELSE "update")
        /\ e.iteration = step \div num_agents
        /\ e.agent = step % num_agents
        /\ e.iteration < iterations[o]
        /\ e.position = swarm[o][e.agent + 1]
        /\ e.kind = "update" =>
              /\ e.position = trace[o][Len(trace[o])].position
              /\ trace[o][Len(trace[o])].kind = "eval"
              /\ Returns(e.value) \in UpdateOutcomes(update_fn, e.position, problem_space)
              /\ swarm'[o] = [swarm[o] EXCEPT ![e.agent + 1] = e.value]

\* A step either leaves the history and the swarm alone or adds the next event.
C7_Step(o) ==
    IF trace'[o] = trace[o]
    THEN swarm'[o] = swarm[o]
    ELSE /\ Len(trace'[o]) = Len(trace[o]) + 1
         /\ SubSeq(trace'[o], 1, Len(trace[o])) = trace[o]
         /\ entry'[o] = entry[o]
         /\ C7_EventInOrder(o, CallLen(o) + 1, trace'[o][Len(trace'[o])])
         /\ trace'[o][Len(trace'[o])].kind = "eval" => swarm'[o] = swarm[o]

C7_State(o) ==
    /\ \A j \in 0 .. (num_agents - 1) :
          swarm[o][j + 1] = PositionAfter(o, j, Len(trace[o]))
    /\ pc[o] = "returned" =>
          /\ CallLen(o) = 2 * iterations[o] * num_agents
          /\ rounds[o] = entry[o].rounds + iterations[o]
    /\ pc[o] \in {"evaluate", "compare", "update"} =>
          position[o] = swarm[o][agent_idx[o] + 1]

C7_RoundsInOrder ==
    /\ [][\A o \in objs : C7_Step(o)]_vars
    /\ [](\A o \in objs : C7_State(o))

\* Two rounds of two agents have returned and an agent stands outside of the
\* problem space, where the update function put it.
C7_Witness ==
    \E o \in objs :
        /\ pc[o] = "returned"
        /\ iterations[o] = 2
        /\ num_agents = 2
        /\ CallLen(o) = 8
        /\ \E j \in 1 .. num_agents : swarm[o][j] \notin problem_space

\* ---------------------------------------------------------------------------
\* C9: len(swarm) = num_agents in every reachable state; entries are only
\* overwritten, each at the index of the agent being processed.
\* ---------------------------------------------------------------------------
C9_Step(o) ==
    /\ Len(swarm'[o]) = Len(swarm[o])
    /\ \A j \in 1 .. Len(swarm[o]) :
          swarm'[o][j] # swarm[o][j] => (pc[o] = "update" /\ j = agent_idx[o] + 1)

C9_SwarmLength ==
    /\ [](\A o \in objs : Len(swarm[o]) = num_agents)
    /\ [][\A o \in objs : C9_Step(o)]_vars

\* Both agents of a swarm of two have been moved.
C9_Witness ==
    \E o \in objs :
        /\ num_agents = 2
        /\ Len(swarm[o]) = 2
        /\ swarm[o][1] # initial_swarm[1]
        /\ swarm[o][2] # initial_swarm[2]

\* ---------------------------------------------------------------------------
\* C10: the best record is either the untouched sentinel or a position some
\* agent held when it was evaluated together with the heuristic's score of
\* that position; position and score are replaced in the same step.
\* ---------------------------------------------------------------------------
C10_Consistent(o) ==
    \/ /\ global_best[o] = None
       /\ global_best_score[o] = Inf
    \/ /\ global_best[o] # None
       /\ global_best_score[o] = HeuristicValue(heuristic, global_best[o])
       /\ \E k \in EvalIdx(o) :
             /\ trace[o][k].position = global_best[o]
             /\ trace[o][k].value = global_best_score[o]

C10_Step(o) ==
    /\ (global_best'[o] # global_best[o]) <=> (global_best_score'[o] # global_best_score[o])
    /\ global_best'[o] # global_best[o] =>
          /\ global_best'[o] = position[o]
          /\ global_best_score'[o] = score[o]

C10_BestPairConsistent ==
    /\ [](\A o \in objs : C10_Consistent(o))
    /\ [][\A o \in objs : C10_Step(o)]_vars

\* The record has been replaced twice.
C10_Witness ==
    \E o \in objs :
        /\ Len(output[o]) >= 2
        /\ global_best[o] # None
        /\ global_best[o] # initial_swarm[1]

\* ---------------------------------------------------------------------------
\* C6: a later call continues from the state the earlier one left: with a
\* deterministic heuristic and update function, optimizers built from the
\* same sample whose completed calls add up to the same number of rounds have
\* the same swarm and the same best record, and their latest calls returned
\* the same pair (optimize(a) then optimize(b) against optimize(a + b)).
\* ---------------------------------------------------------------------------
\* Every call made on o has returned, none was ended by an error.
AllCallsCompleted(o) == pc[o] = "returned" /\ rounds[o] = requested[o]

C6_CallsCompose ==
    \A o1, o2 \in objs :
        (/\ AllCallsCompleted(o1)
         /\ AllCallsCompleted(o2)
         /\ requested[o1] = requested[o2]) =>
            /\ swarm[o1] = swarm[o2]
            /\ global_best[o1] = global_best[o2]
            /\ global_best_score[o1] = global_best_score[o2]
            /\ result[o1] = result[o2]

\* One optimizer ran optimize(1) twice, the other optimize(2) once; the agents
\* moved, and the best record was found in the first round and survived the
\* second call.
C6_Witness ==
    \E o1, o2 \in objs :
        /\ AllCallsCompleted(o1)
        /\ AllCallsCompleted(o2)
        /\ calls[o1] = 2
        /\ entry[o1].rounds = 1
        /\ rounds[o1] = 2
        /\ calls[o2] = 1
        /\ rounds[o2] = 2
        /\ swarm[o1] # initial_swarm
        /\ result[o1] = <<entry[o1].global_best, entry[o1].global_best_score>>
        /\ result[o1] # Sentinel

\* ---------------------------------------------------------------------------
\* C8: with static agents and a deterministic heuristic, every replacement of
\* the best record and every notification happens in iteration 0, nothing
\* changes in a later round, and the result is (p, heuristic(p)) for p the
\* initial position at the lowest agent index attaining the minimum score
\* over the initial swarm.
\* ---------------------------------------------------------------------------
\* The lowest index of the initial swarm attaining the minimum score.
FirstBestAgent ==
    LET h(j) == HeuristicValue(heuristic, initial_swarm[j])
        m == Min({h(j) : j \in 1 .. num_agents})
    IN  Min({j \in 1 .. num_agents : h(j) = m})

C8_Step(o) ==
    /\ swarm'[o] = swarm[o]
    /\ (\/ global_best'[o] # global_best[o]
        \/ global_best_score'[o] # global_best_score[o]
        \/ output'[o] # output[o]) => (iteration[o] = 0 /\ rounds[o] = 0)

C8_State(o) ==
    /\ swarm[o] = initial_swarm
    /\ \A k \in 1 .. Len(output[o]) : output[o][k][1] = 0
    /\ (pc[o] = "returned" /\ rounds[o] >= 1) =>
          /\ result[o] = <<initial_swarm[FirstBestAgent],
                           HeuristicValue(heuristic, initial_swarm[FirstBestAgent])>>
          /\ Len(output[o]) >= 1
          /\ output[o][1] = <<0, 0, HeuristicValue(heuristic, initial_swarm[1])>>
          /\ num_agents = 1 => Len(output[o]) = 1

C8_StaticAgents ==
    /\ [](\A o \in objs : update_fn = "static" => C8_State(o))
    /\ [][\A o \in objs : update_fn = "static" => C8_Step(o)]_vars

\* Initial swarm [2, 0, 1] with heuristic(x) = -x: one round returns (2, -2).
C8_Witness ==
    \E o \in objs :
        /\ update_fn = "static"
        /\ heuristic = "negate"
        /\ initial_swarm = <<2, 0, 1>>
        /\ pc[o] = "returned"
        /\ iterations[o] = 1
        /\ result[o] = <<2, -2>>

\* A single agent at 5 with heuristic(x) = x, several rounds: (5, 5) is
\* returned after one notification at iteration 0, agent 0.
C8_WitnessSingle ==
    \E o \in objs :
        /\ update_fn = "static"
        /\ heuristic = "identity"
        /\ problem_space = {5}
        /\ initial_swarm = <<5>>
        /\ pc[o] = "returned"
        /\ iterations[o] = MaxWork
        /\ result[o] = <<5, 5>>
        /\ output[o] = << <<0, 0, 5>> >>

====
